---- MODULE Spec2Model ----
(***************************************************************************)
(* A model of qdina-bench: the workload orchestrator (benchmark.py,        *)
(* class Benchmark), the query rewriter (query_loader.py,                  *)
(* add_alias_subquery) and the per-replica runner (query_set.py, class     *)
(* QuerySet).  Spec is the orchestrator as it is written; SpecRewrite      *)
(* applies the rewriter to bounded texts; SpecRunner runs QuerySet objects *)
(* constructed with all six arguments, each in a process of its own.       *)
(*                                                                         *)
(* Python lists are modelled as sequences.  Python indexes from 0 and the  *)
(* values kept in the lists (template ids, replica indexes, query numbers) *)
(* stay 0-based as in the code; a list access  xs[i]  is  xs[i + 1]  here. *)
(* benchmark.py is read with the semantics of an interpreter that accepts  *)
(* the nested quotes of the f-string at line 46 (Python 3.12 or later).    *)
(***************************************************************************)
EXTENDS Integers, Sequences, FiniteSets, TLC

VARIABLES
    \* ---- Benchmark object (benchmark.py) ----
    bpc,              \* position of the orchestrator: "none" (not constructed),
                      \* "idle" (constructed, no call in progress), or a point in run()
    templates,        \* self.templates: template id of every query instance
    n_templates,      \* self.n_templates
    nrep,             \* len(self.replicas)
    routes,           \* self.routes: position = template id, value = replica index
    config,           \* self.config: per replica, the number of index entries of the plan
    create_indexes,   \* the constructor's flag
    times,            \* self.times
    order,            \* self.order
    replica_workloads,\* local of run(): per replica, the query instances routed to it
    replica_templates,\* local of run(): per replica, the template of each of them
    timer_queues,     \* local of run(): per replica, the messages in its Queue
    tic,              \* local of run(): the wall-clock start, "unset" until assigned
    toc,              \* local of run(): the wall-clock end, "unset" until assigned
    last_op,          \* the call that ended last: "none", "init", "run", "destroy"
    err,              \* the exception that call ended with, "none" when it returned
    nruns,            \* number of run() calls started on this object
    \* ---- the replicas' databases, as seen through self.cursors ----
    db,               \* per replica, the set of n such that index idx_n exists
    created,          \* statements issued by _create_indexes: <<replica, n>> for idx_n
    dropped,          \* statements issued by the last destroy_indexes call
    \* ---- query rewriter (query_loader.py) ----
    query_text,       \* the argument of add_alias_subquery, a sequence of characters
    rewritten,        \* what the call ended with: the text returned, or the exception;
                      \* positions is the local list of the call when it ended
    rewritten_again,  \* what a second call, on the text the first returned, ended with
    \* ---- runners (query_set.py) ----
    runners,          \* the QuerySet objects constructed, each with the position of its run()
    executed,         \* per QuerySet, the statements its cursor was given, in order
    channel_log       \* the put() and get() calls made on the Queue objects, in order

bvars == <<bpc, templates, n_templates, nrep, routes, config, create_indexes, times,
           order, replica_workloads, replica_templates, timer_queues, tic, toc,
           last_op, err, nruns, db, created, dropped>>
rvars == <<query_text, rewritten, rewritten_again>>
qvars == <<runners, executed, channel_log>>
\* bvars without the Queue objects, which the runners write to
ovars == <<bpc, templates, n_templates, nrep, routes, config, create_indexes, times,
           order, replica_workloads, replica_templates, tic, toc,
           last_op, err, nruns, db, created, dropped>>
vars == <<bvars, rvars, qvars>>

\* ------------------------------------------------------------------ bounds
MaxQueries == 3
MaxIdx == 2
MaxRuns == 2
MaxFrags == 4

TemplateIds == {0, 1}
ReplicaCounts == {0, 1, 2}

\* ------------------------------------------------------------ list helpers
SeqsUpTo(S, n) == UNION {[1..k -> S] : k \in 0..n}

Range(s) == {s[i] : i \in 1..Len(s)}

RECURSIVE SumSeq(_)
SumSeq(s) == IF s = <<>> THEN 0 ELSE Head(s) + SumSeq(Tail(s))

\* The rearrangements of the positions 1..n, for every length a list can have.
IndexPerms ==
    [n \in 0..MaxQueries |->
        {pi \in [1..n -> 1..n] : \A x \in 1..n : \E i \in 1..n : pi[i] = x}]

\* What random.shuffle(s) can leave in s: any rearrangement of its elements.
Perms(s) == {[i \in 1..Len(s) |-> s[pi[i]]] : pi \in IndexPerms[Len(s)]}

\* ----------------------------------------------------- the replicas' databases
\* cur.execute(f'CREATE INDEX idx_{n} ...') on replica rep (benchmark.py:46): the
\* statements of a list are executed in order on the databases d until one fails;
\* the exception of the failing statement ends the loop that issues them.
RECURSIVE ExecCreate(_, _, _)
ExecCreate(stmts, d, issued) ==
    IF stmts = <<>> THEN [db |-> d, issued |-> issued, err |-> "none"]
    ELSE LET rep == Head(stmts)[1]
             n == Head(stmts)[2]
         IN IF n \in d[rep + 1]
            THEN [db |-> d, issued |-> Append(issued, Head(stmts)), err |-> "DuplicateTable"]
            ELSE ExecCreate(Tail(stmts), [d EXCEPT ![rep + 1] = @ \cup {n}],
                            Append(issued, Head(stmts)))

\* cur.execute(f'DROP INDEX idx_{n}') on replica rep (benchmark.py:99): the statement
\* has no IF EXISTS, so the database rejects it when idx_n does not exist there.
RECURSIVE ExecDrop(_, _, _)
ExecDrop(stmts, d, issued) ==
    IF stmts = <<>> THEN [db |-> d, issued |-> issued, err |-> "none"]
    ELSE LET rep == Head(stmts)[1]
             n == Head(stmts)[2]
         IN IF n \notin d[rep + 1]
            THEN [db |-> d, issued |-> Append(issued, Head(stmts)), err |-> "UndefinedObject"]
            ELSE ExecDrop(Tail(stmts), [d EXCEPT ![rep + 1] = @ \ {n}],
                          Append(issued, Head(stmts)))

\* ------------------------------------------------- Benchmark._create_indexes
\* The statements of the two nested loops of _create_indexes, from replica i_rep
\* (0-based) on, with indexes_created indexes named so far: <<replica, n>> stands
\* for CREATE INDEX idx_n issued on self.cursors[replica].
RECURSIVE CreateFrom(_, _, _)
CreateFrom(cfg, i_rep, indexes_created) ==
    IF i_rep >= Len(cfg) THEN <<>>
    ELSE [k \in 1..cfg[i_rep + 1] |-> <<i_rep, indexes_created + k>>]
         \o CreateFrom(cfg, i_rep + 1, indexes_created + cfg[i_rep + 1])

CreateStmts(cfg) == CreateFrom(cfg, 0, 0)

\* ------------------------------------------------- Benchmark.destroy_indexes
\* The statements of a destroy loop whose counter restarts with every replica:
\* names that are unique per replica only.
RECURSIVE DropFromPerReplica(_, _)
DropFromPerReplica(cfg, i_rep) ==
    IF i_rep >= Len(cfg) THEN <<>>
    ELSE [k \in 1..cfg[i_rep + 1] |-> <<i_rep, k>>] \o DropFromPerReplica(cfg, i_rep + 1)

DropStmtsPerReplica(cfg) == DropFromPerReplica(cfg, 0)

RECURSIVE DropFrom(_, _, _)
DropFrom(cfg, i_rep, indexes_destroyed) ==
    IF i_rep >= Len(cfg) THEN <<>>
    ELSE [k \in 1..cfg[i_rep + 1] |-> <<i_rep, indexes_destroyed + k>>]
         \o DropFrom(cfg, i_rep + 1, indexes_destroyed + cfg[i_rep + 1])

DropStmts(cfg) == DropFrom(cfg, 0, 0)

\* -------------------------------------------------------- Benchmark.__init__
\* The number of entries of an index plan.
PlanSize(cfg) == SumSeq(cfg)

\* The constructor's arguments that are explored: a corpus of up to MaxQueries
\* instances with an empty index plan and index creation skipped, or an index plan
\* of up to MaxIdx entries per replica with a corpus of at most one instance (the
\* index statements do not depend on the corpus, nor the partition on the plan).
Explored(tmpl, cfg, flag) == Len(tmpl) <= 1 \/ (PlanSize(cfg) = 0 /\ ~flag)

\* Lines 16-31.  The routing table and the corpus are stored as given: nothing
\* compares the template ids of the corpus with the routing table.
Construct ==
    /\ bpc = "none"
    /\ \E tmpl \in SeqsUpTo(TemplateIds, MaxQueries), n \in ReplicaCounts,
          rt \in SeqsUpTo(0..1, 2), flag \in BOOLEAN :
         \E cfg \in {c \in [1..n -> 0..MaxIdx] : Explored(tmpl, c, flag)} :
            LET r == IF flag THEN ExecCreate(CreateStmts(cfg), db, <<>>)
                             ELSE [db |-> db, issued |-> <<>>, err |-> "none"]
            IN /\ templates' = tmpl
               /\ n_templates' = Cardinality(Range(tmpl))
               /\ nrep' = n
               /\ routes' = rt
               /\ config' = cfg
               /\ create_indexes' = flag
               /\ times' = [t \in 1..Cardinality(Range(tmpl)) |-> 0]
               /\ order' = [i \in 1..Len(tmpl) |-> i - 1]
               /\ db' = r.db
               /\ created' = r.issued
               /\ err' = r.err
               /\ bpc' = IF r.err = "none" THEN "idle" ELSE "none"
    /\ last_op' = "init"
    /\ UNCHANGED <<replica_workloads, replica_templates, timer_queues, tic, toc, nruns,
                   dropped>>
    /\ UNCHANGED <<rvars, qvars>>

\* ------------------------------------------------------------- Benchmark.run
\* A routing that ignores the table and sends every template to replica 0.
TargetAlwaysFirst(rt, template) == 0

\* Line 63: replica = self.routes[template].

TargetReplica(rt, template) == rt[template + 1]

\* Lines 60-66 from the query numbers ord on: wl and tp are replica_workloads and
\* replica_templates so far.  A query instance is identified by its number (its
\* text is self.queries[query_num]).  A list index out of range raises IndexError.
RECURSIVE PartitionLoop(_, _, _, _, _)
PartitionLoop(ord, tmpl, rt, wl, tp) ==
    IF ord = <<>> THEN [wl |-> wl, tp |-> tp, err |-> "none"]
    ELSE LET query_num == Head(ord)
             template == tmpl[query_num + 1]
         IN IF template >= Len(rt)
            THEN [wl |-> wl, tp |-> tp, err |-> "IndexError"]
            ELSE LET replica == TargetReplica(rt, template)
                 IN IF replica >= Len(wl)
                    THEN [wl |-> wl, tp |-> tp, err |-> "IndexError"]
                    ELSE PartitionLoop(Tail(ord), tmpl, rt,
                                       [wl EXCEPT ![replica + 1] = Append(@, query_num)],
                                       [tp EXCEPT ![replica + 1] = Append(@, template)])

\* Lines 55-66: shuffle self.order in place, then partition it.
Run_Partition ==
    /\ bpc = "idle"
    /\ nruns < MaxRuns
    /\ nruns' = nruns + 1
    /\ \E p \in Perms(order) :
         LET r == PartitionLoop(p, templates, routes,
                                [i \in 1..nrep |-> <<>>], [i \in 1..nrep |-> <<>>])
         IN /\ order' = p
            /\ replica_workloads' = r.wl
            /\ replica_templates' = r.tp
            /\ err' = r.err
            /\ bpc' = IF r.err = "none" THEN "querysets" ELSE "idle"
    /\ last_op' = "run"
    /\ tic' = "unset"
    /\ toc' = "unset"
    /\ UNCHANGED <<templates, n_templates, nrep, routes, config, create_indexes, times,
                   timer_queues, db, created, dropped>>
    /\ UNCHANGED <<rvars, qvars>>

\* Lines 68-72: one empty Queue per replica, then one QuerySet per replica.  The
\* call at line 72 passes five arguments and QuerySet.__init__ (query_set.py:8-9)
\* requires six (explain_plans has no default): the first call raises TypeError.
Run_QuerySets ==
    /\ bpc = "querysets"
    /\ timer_queues' = [i \in 1..nrep |-> <<>>]
    /\ IF nrep > 0
       THEN /\ err' = "TypeError"
            /\ bpc' = "idle"
       ELSE /\ err' = "none"
            /\ bpc' = "start"
    /\ UNCHANGED <<templates, n_templates, nrep, routes, config, create_indexes, times,
                   order, replica_workloads, replica_templates, tic, toc, last_op, nruns,
                   db, created, dropped>>
    /\ UNCHANGED <<rvars, qvars>>

\* Lines 74-76: the Process objects, then tic = time.time().  The loop variable of
\* line 83 makes `time` a local name of run(), unbound at line 76: the read raises
\* UnboundLocalError, before tic is assigned and before any process is started.
\* Lines 77-90 are never reached.
Run_Start ==
    /\ bpc = "start"
    /\ err' = "UnboundLocalError"
    /\ bpc' = "idle"
    /\ UNCHANGED <<templates, n_templates, nrep, routes, config, create_indexes, times,
                   order, replica_workloads, replica_templates, timer_queues, tic, toc,
                   last_op, nruns, db, created, dropped>>
    /\ UNCHANGED <<rvars, qvars>>

\* Lines 92-101.
DestroyIndexes ==
    /\ bpc = "idle"
    /\ LET r == ExecDrop(DropStmts(config), db, <<>>)
       IN /\ db' = r.db
          /\ dropped' = r.issued
          /\ err' = r.err
    /\ last_op' = "destroy"
    /\ UNCHANGED <<bpc, templates, n_templates, nrep, routes, config, create_indexes,
                   times, order, replica_workloads, replica_templates, timer_queues,
                   tic, toc, nruns, created>>
    /\ UNCHANGED <<rvars, qvars>>

\* ------------------------------------------------- query_loader.add_alias_subquery
\* A text is a sequence of one-character strings.  pos, as in the code, counts
\* characters from 0: the character at pos is text[pos + 1].

\* str.lower() on the letters the texts are built from.
Lower(c) ==
    CASE c = "F" -> "f" [] c = "R" -> "r" [] c = "O" -> "o" [] c = "M" -> "m"
      [] c = "W" -> "w" [] c = "H" -> "h" [] c = "E" -> "e" [] c = "X" -> "x"
      [] OTHER -> c

LowerText(s) == [i \in 1..Len(s) |-> Lower(s[i])]

\* The class [  \n] of the pattern at line 50: a space or a newline.
PatternSpace == {" ", "\n"}

\* What str.lstrip() removes, among the characters of the texts.
StripSpace == {" ", "\n", "\t"}

\* The characters that end next_word at line 60: split(" ")[0].split("\n")[0].
WordEnd == {" ", "\n"}

RECURSIVE SkipPatternSpace(_, _)
SkipPatternSpace(text, pos) ==
    IF pos < Len(text) /\ text[pos + 1] \in PatternSpace
    THEN SkipPatternSpace(text, pos + 1) ELSE pos

\* The pattern ((from)|,)[  \n]*\( tried at pos: the end of the match (match.span()[1]),
\* or -1 when the pattern does not match there.
MatchAt(text, pos) ==
    LET open == IF pos + 4 <= Len(text)
                   /\ SubSeq(text, pos + 1, pos + 4) = <<"f", "r", "o", "m">>
                THEN pos + 4
                ELSE IF text[pos + 1] = "," THEN pos + 1 ELSE -1
    IN IF open = -1 THEN -1
       ELSE LET paren == SkipPatternSpace(text, open)
            IN IF paren < Len(text) /\ text[paren + 1] = "(" THEN paren + 1 ELSE -1

\* re.finditer from pos on: the ends of the non-overlapping matches, left to right.
RECURSIVE FindIter(_, _)
FindIter(text, pos) ==
    IF pos >= Len(text) THEN <<>>
    ELSE LET e == MatchAt(text, pos)
         IN IF e >= 0 THEN <<e>> \o FindIter(text, e) ELSE FindIter(text, pos + 1)

\* A scan that does not count the parentheses opened inside the derived table: it
\* stops behind the first ")".
RECURSIVE ScanCloseFirstParen(_, _, _)
ScanCloseFirstParen(text, pos, counter) ==
    IF counter <= 0 THEN pos
    ELSE IF pos >= Len(text) THEN -1
    ELSE ScanCloseFirstParen(text, pos + 1,
                             IF text[pos + 1] = ")" THEN counter - 1 ELSE counter)

\* Lines 53-59: the depth count from pos on.  text[pos] beyond the end of the text
\* raises IndexError: -1.
RECURSIVE ScanClose(_, _, _)
ScanClose(text, pos, counter) ==
    IF counter <= 0 THEN pos
    ELSE IF pos >= Len(text) THEN -1
    ELSE LET char == text[pos + 1]
         IN ScanClose(text, pos + 1,
                      IF char = "(" THEN counter + 1
                      ELSE IF char = ")" THEN counter - 1 ELSE counter)

RECURSIVE LStrip(_)
LStrip(s) == IF s # <<>> /\ Head(s) \in StripSpace THEN LStrip(Tail(s)) ELSE s

RECURSIVE FirstWord(_)
FirstWord(s) ==
    IF s = <<>> \/ Head(s) \in WordEnd THEN <<>> ELSE <<Head(s)>> \o FirstWord(Tail(s))

\* Line 60: next_word = query_text[pos:].lstrip().split(" ")[0].split("\n")[0].
NextWord(qtext, pos) == FirstWord(LStrip(SubSeq(qtext, pos + 1, Len(qtext))))

Keywords ==
    { <<"l", "i", "m", "i", "t">>, <<"g", "r", "o", "u", "p">>,
      <<"o", "r", "d", "e", "r">>, <<"w", "h", "e", "r", "e">> }

\* A test at lines 61-66 that takes every following word for the end of the
\* derived table.
NeedsAliasAnyWord(next_word) == TRUE

\* Lines 61-66, for a next_word that is not empty.
NeedsAlias(next_word) == next_word[1] \in {")", ","} \/ next_word \in Keywords

\* Lines 50-67: the loop over the matches whose ends are ends; positions is the list
\* so far.  next_word[0] of an empty next_word raises IndexError.
RECURSIVE MatchLoop(_, _, _, _)
MatchLoop(qtext, text, ends, positions) ==
    IF ends = <<>> THEN [err |-> "none", positions |-> positions]
    ELSE LET pos == ScanClose(text, Head(ends), 1)
         IN IF pos = -1 THEN [err |-> "IndexError", positions |-> positions]
            ELSE LET next_word == NextWord(qtext, pos)
                 IN IF next_word = <<>>
                    THEN [err |-> "IndexError", positions |-> positions]
                    ELSE MatchLoop(qtext, text, Tail(ends),
                                   IF NeedsAlias(next_word)
                                   THEN Append(positions, pos) ELSE positions)

\* sorted(positions, reverse=True)
RECURSIVE InsertDesc(_, _)
InsertDesc(x, s) ==
    IF s = <<>> THEN <<x>>
    ELSE IF x >= Head(s) THEN <<x>> \o s ELSE <<Head(s)>> \o InsertDesc(x, Tail(s))

RECURSIVE SortedReverse(_)
SortedReverse(s) == IF s = <<>> THEN <<>> ELSE InsertDesc(Head(s), SortedReverse(Tail(s)))

Alias == <<" ", "a", "s", " ", "a", "l", "i", "a", "s", "1", "2", "3", " ">>

\* Line 69: query_text[:pos] + " as alias123 " + query_text[pos:]
InsertAt(qtext, pos) == SubSeq(qtext, 1, pos) \o Alias \o SubSeq(qtext, pos + 1, Len(qtext))

\* Lines 68-69
RECURSIVE InsertAll(_, _)
InsertAll(qtext, ps) ==
    IF ps = <<>> THEN qtext ELSE InsertAll(InsertAt(qtext, Head(ps)), Tail(ps))

add_alias_subquery(qtext) ==
    LET text == LowerText(qtext)
        r == MatchLoop(qtext, text, FindIter(text, 0), <<>>)
    IN IF r.err # "none"
       THEN [ok |-> FALSE, err |-> r.err, text |-> <<>>, positions |-> r.positions]
       ELSE [ok |-> TRUE, err |-> "none",
             text |-> InsertAll(qtext, SortedReverse(r.positions)),
             positions |-> r.positions]

\* ---- the texts the rewriter is applied to
Frags ==
    { <<"f", "r", "o", "m", "(">>,
      <<"F", "R", "O", "M", " ", "(">>,
      <<",", "(">>,
      <<")">>,
      <<" ">>,
      <<"\n">>,
      <<"x">>,
      <<"w", "h", "e", "r", "e">> }

RECURSIVE Flatten(_)
Flatten(fs) == IF fs = <<>> THEN <<>> ELSE Head(fs) \o Flatten(Tail(fs))

\* The texts made of up to n fragments.
Texts(n) == {Flatten(fs) : fs \in SeqsUpTo(Frags, n)}

NoText == <<>>
NotRewritten == [ok |-> FALSE, err |-> "not called", text |-> <<>>, positions |-> <<>>]

Init ==
    /\ bpc = "none"
    /\ templates = <<>>
    /\ n_templates = 0
    /\ nrep = 0
    /\ routes = <<>>
    /\ config = <<>>
    /\ create_indexes = FALSE
    /\ times = <<>>
    /\ order = <<>>
    /\ replica_workloads = <<>>
    /\ replica_templates = <<>>
    /\ timer_queues = <<>>
    /\ tic = "unset"
    /\ toc = "unset"
    /\ last_op = "none"
    /\ err = "none"
    /\ nruns = 0
    /\ db = [i \in 1..2 |-> {}]
    /\ created = <<>>
    /\ dropped = <<>>
    /\ query_text = NoText
    /\ rewritten = NotRewritten
    /\ rewritten_again = NotRewritten
    /\ runners = <<>>
    /\ executed = <<>>
    /\ channel_log = <<>>

InitRewrite ==
    /\ bpc = "none"
    /\ templates = <<>>
    /\ n_templates = 0
    /\ nrep = 0
    /\ routes = <<>>
    /\ config = <<>>
    /\ create_indexes = FALSE
    /\ times = <<>>
    /\ order = <<>>
    /\ replica_workloads = <<>>
    /\ replica_templates = <<>>
    /\ timer_queues = <<>>
    /\ tic = "unset"
    /\ toc = "unset"
    /\ last_op = "none"
    /\ err = "none"
    /\ nruns = 0
    /\ db = [i \in 1..2 |-> {}]
    /\ created = <<>>
    /\ dropped = <<>>
    /\ query_text \in Texts(MaxFrags)
    /\ rewritten = NotRewritten
    /\ rewritten_again = NotRewritten
    /\ runners = <<>>
    /\ executed = <<>>
    /\ channel_log = <<>>

\* One call add_alias_subquery(query_text).
Rewrite ==
    /\ rewritten = NotRewritten
    /\ rewritten' = add_alias_subquery(query_text)
    /\ UNCHANGED <<query_text, rewritten_again>>
    /\ UNCHANGED <<bvars, qvars>>

\* A second call, add_alias_subquery(add_alias_subquery(query_text)), once the first
\* has returned a text.
RewriteAgain ==
    /\ rewritten.ok
    /\ rewritten_again = NotRewritten
    /\ rewritten_again' = add_alias_subquery(rewritten.text)
    /\ UNCHANGED <<query_text, rewritten>>
    /\ UNCHANGED <<bvars, qvars>>

NextRewrite == Rewrite \/ RewriteAgain

SpecRewrite == InitRewrite /\ [][NextRewrite]_vars

Next == Construct \/ Run_Partition \/ Run_QuerySets \/ Run_Start \/ DestroyIndexes

Spec == Init /\ [][Next]_vars

\* ======================================================================
\* The runner: QuerySet (query_set.py)
\* ======================================================================
\* A query text is a sequence of words, of which ";" is the separator of
\* query.split(';') and "create view", "drop view", "select" are the substrings
\* lines 45 and 47 look for; "x" stands for any other text.

MaxRunnerQueries == 2

\* How much of a report the pipe under a multiprocessing.Queue takes without a
\* reader, counted in entries of the report.
PipeCapacity == 2

RunnerCounts == {1, 2}

\* The seconds one cursor.execute call can take.
Durations == {1, 2}

\* What self.cursor.fetchone() can give after an EXPLAIN (FORMAT JSON) call; it
\* depends on the driver behind Connection and on its row factory:
\*   "no row"        None
\*   "empty row"     ()
\*   "dict row"      {'QUERY PLAN': '[...]'}
\*   "text"          ('[...]',)      the json column as text
\*   "empty text"    ('',)
\*   "decoded json"  ([{...}],)      the json column decoded: a list of dict
\*   "list of text"  (['[...]'],)    a list that holds the plan as text
FetchResults ==
    {"no row", "empty row", "dict row", "text", "empty text", "decoded json",
     "list of text"}

QueryTexts ==
    { <<"select">>,
      <<"select", ";">>,
      <<"create view", "select", ";", "select", ";", "drop view">>,
      <<"x">> }

\* query.split(';') (line 44): cur is the part read so far.
RECURSIVE Split(_, _)
Split(query, cur) ==
    IF query = <<>> THEN <<cur>>
    ELSE IF Head(query) = ";" THEN <<cur>> \o Split(Tail(query), <<>>)
    ELSE Split(Tail(query), Append(cur, Head(query)))

\* word in statement
Contains(statement, word) == \E k \in 1..Len(statement) : statement[k] = word

\* Lines 44-48: the cursor.execute calls the statements of one query lead to in
\* plan-capture mode, in order; explain marks the calls wrapped in
\* EXPLAIN (ANALYZE, BUFFERS, FORMAT JSON), line the line of the call.
RECURSIVE ExplainCalls(_)
ExplainCalls(statements) ==
    IF statements = <<>> THEN <<>>
    ELSE LET statement == Head(statements)
         IN (IF Contains(statement, "create view") \/ Contains(statement, "drop view")
             THEN << [stmt |-> statement, explain |-> FALSE, line |-> 46] >>
             ELSE IF Contains(statement, "select")
             THEN << [stmt |-> statement, explain |-> TRUE, line |-> 48] >>
             ELSE <<>>)
            \o ExplainCalls(Tail(statements))

\* Lines 42-52: the cursor.execute calls of one iteration of the loop.
Calls(query, explain_plans) ==
    IF explain_plans THEN ExplainCalls(Split(query, <<>>))
    ELSE << [stmt |-> query, explain |-> FALSE, line |-> 52] >>

\* The text of the plan the database gives for a statement, as characters: FORMAT
\* JSON makes it begin with "[" and end with "]".
PlanText(statement) == <<"[">> \o statement \o <<"]">>

\* Python values: type is the type, items the characters of a str or the elements
\* of a tuple or list.
PyNone == [type |-> "None", items |-> <<>>]
PyDict == [type |-> "dict", items |-> <<>>]
PyStr(chars) == [type |-> "str", items |-> chars]
PyTuple(elems) == [type |-> "tuple", items |-> elems]
PyList(elems) == [type |-> "list", items |-> elems]
PyError(e) == [type |-> "error", items |-> <<e>>]

\* The value of self.cursor.fetchone() for each of FetchResults.
Fetched(fetched, statement) ==
    CASE fetched = "no row" -> PyNone
      [] fetched = "empty row" -> PyTuple(<<>>)
      [] fetched = "dict row" -> PyDict
      [] fetched = "text" -> PyTuple(<< PyStr(PlanText(statement)) >>)
      [] fetched = "empty text" -> PyTuple(<< PyStr(<<>>) >>)
      [] fetched = "decoded json" -> PyTuple(<< PyList(<< PyDict >>) >>)
      [] fetched = "list of text" -> PyTuple(<< PyList(<< PyStr(PlanText(statement)) >>) >>)

\* v[0]: None is not subscriptable (TypeError); a dict has no key 0 (KeyError); an
\* empty tuple, list or str has no index 0 (IndexError); the first character of a
\* str is a str of one character.
Subscript0(v) ==
    CASE v.type = "error" -> v
      [] v.type = "None" -> PyError("TypeError")
      [] v.type = "dict" -> PyError("KeyError")
      [] v.items = <<>> -> PyError("IndexError")
      [] v.type = "str" -> PyStr(<< v.items[1] >>)
      [] OTHER -> v.items[1]

\* Line 49: plan += self.cursor.fetchone()[0][0].  plan is a str: += appends a
\* str, and raises TypeError for any other value.
PlanAdd(plan, fetched, statement) ==
    LET v == Subscript0(Subscript0(Fetched(fetched, statement)))
    IN IF v.type = "error" THEN [err |-> v.items[1], plan |-> plan]
       ELSE IF v.type = "str" THEN [err |-> "none", plan |-> plan \o v.items]
       ELSE [err |-> "TypeError", plan |-> plan]

\* Lines 21-28: QuerySet(num, queries, templates, replica, timer_queue,
\* explain_plans).  The constructor opens the connection and its cursor.  queue is
\* the position of timer_queue among the Queue objects.  The other fields are the
\* locals of run(): pc its position, i the iterations completed, k the calls made
\* in the current iteration, plan and elapsed what the current iteration has
\* gathered, err and line the exception that ended run() and where it was raised.
NewQuerySet(num, queries, tmpl, queue, explain_plans) ==
    [num |-> num, queries |-> queries, templates |-> tmpl, queue |-> queue,
     explain_plans |-> explain_plans,
     pc |-> "ready", i |-> 0, k |-> 0, plan |-> <<>>, elapsed |-> 0,
     times |-> <<>>, plans |-> <<>>, err |-> "none", line |-> 0,
     cursor_closes |-> 0, connection_closes |-> 0, exited |-> FALSE]

\* The arguments of the constructor: the queries, the templates (as many as the
\* queries or fewer), and the plan-capture flag.
RunnerInputs(n) ==
    UNION { { <<qs, [j \in 1..t |-> 0], ex>> : t \in 0..Len(qs), ex \in BOOLEAN }
            : qs \in SeqsUpTo(QueryTexts, n) }

\* run() ends with exception e raised at line l: nothing more is done.
Raise(me, e, l) == [me EXCEPT !.pc = "aborted", !.err = e, !.line = l]

\* Lines 34-36: run() begins.
Start(r) ==
    /\ runners[r].pc = "ready"
    /\ runners' = [runners EXCEPT ![r] = [@ EXCEPT !.pc = "running",
                                                   !.times = <<>>, !.plans = <<>>]]
    /\ UNCHANGED <<executed, channel_log, timer_queues, ovars, rvars>>

\* Lines 50-57: the end of an iteration whose calls took elapsed and gave plan.
EndIteration(me, plan, elapsed) ==
    [me EXCEPT !.i = @ + 1, !.k = 0, !.plan = <<>>, !.elapsed = 0,
               !.times = Append(@, elapsed),
               !.plans = IF me.explain_plans THEN Append(@, plan) ELSE @]

\* Lines 38-57, up to and including the next cursor.execute call and what follows
\* it without waiting.  At the head of an iteration line 39 reads
\* self.templates[i], which raises IndexError when templates is shorter than
\* queries.  An iteration without a statement to execute makes no call.  Otherwise
\* the next call of the iteration is made: it takes some time and returns or
\* raises; after a wrapped call that returned, line 49 fetches and appends the plan.
\* After the last call of the iteration its time and plan are appended.
Execute(r) ==
    /\ runners[r].pc = "running"
    /\ runners[r].i < Len(runners[r].queries)
    /\ LET me == runners[r]
           i == me.i + 1
           calls == Calls(me.queries[i], me.explain_plans)
       IN IF me.k = 0 /\ i > Len(me.templates)
          THEN /\ runners' = [runners EXCEPT ![r] = Raise(me, "IndexError", 39)]
               /\ UNCHANGED executed
          ELSE IF calls = <<>>
          THEN /\ runners' = [runners EXCEPT ![r] = EndIteration(me, <<>>, 0)]
               /\ UNCHANGED executed
          ELSE LET call == calls[me.k + 1]
               IN \E dur \in Durations, raised \in BOOLEAN, fetched \in FetchResults :
                    LET added == IF call.explain
                                 THEN PlanAdd(me.plan, fetched, call.stmt)
                                 ELSE [err |-> "none", plan |-> me.plan]
                    IN /\ executed' =
                            [executed EXCEPT ![r] =
                                Append(@, [q |-> i, stmt |-> call.stmt,
                                           explain |-> call.explain,
                                           dur |-> dur, ok |-> ~raised])]
                       /\ runners' =
                            [runners EXCEPT ![r] =
                                IF raised THEN Raise(me, "DatabaseError", call.line)
                                ELSE IF added.err # "none" THEN Raise(me, added.err, 49)
                                ELSE IF me.k + 1 = Len(calls)
                                THEN EndIteration(me, added.plan, me.elapsed + dur)
                                ELSE [me EXCEPT !.k = @ + 1, !.plan = added.plan,
                                                !.elapsed = @ + dur]]
    /\ UNCHANGED <<channel_log, timer_queues, ovars, rvars>>

\* Line 61: self.timer_queue.put(...) goes to the Queue the constructor was given.
PutQueue(r) == runners[r].queue

\* Lines 59-67: after the loop, the put of the report.
Put(r) ==
    /\ runners[r].pc = "running"
    /\ runners[r].i = Len(runners[r].queries)
    /\ timer_queues' =
         [timer_queues EXCEPT ![PutQueue(r)] =
             Append(@, [total |-> SumSeq(runners[r].times),
                        times |-> runners[r].times,
                        plans |-> runners[r].plans])]
    /\ channel_log' = Append(channel_log, [op |-> "put", by |-> r, queue |-> PutQueue(r)])
    /\ runners' = [runners EXCEPT ![r] = [@ EXCEPT !.pc = "reported"]]
    /\ UNCHANGED <<executed, ovars, rvars>>

\* Line 69: self.cursor.close(), which returns or raises.
CloseCursor(r) ==
    /\ runners[r].pc = "reported"
    /\ \E raised \in BOOLEAN :
         runners' = [runners EXCEPT ![r] =
                        IF raised THEN Raise(@, "DatabaseError", 69)
                        ELSE [@ EXCEPT !.pc = "cursor closed", !.cursor_closes = @ + 1]]
    /\ UNCHANGED <<executed, channel_log, timer_queues, ovars, rvars>>

\* Line 70: self.connection.close(), which returns or raises.
CloseConnection(r) ==
    /\ runners[r].pc = "cursor closed"
    /\ \E raised \in BOOLEAN :
         runners' = [runners EXCEPT ![r] =
                        IF raised THEN Raise(@, "DatabaseError", 70)
                        ELSE [@ EXCEPT !.pc = "done", !.connection_closes = @ + 1]]
    /\ UNCHANGED <<executed, channel_log, timer_queues, ovars, rvars>>

\* The entries of the report runner r has put: its times and the characters of
\* its plans.
ReportSize(r) ==
    Len(runners[r].times)
      + SumSeq([j \in 1..Len(runners[r].plans) |-> Len(runners[r].plans[j])])

\* Runner r has put its report: it is past line 61.
HasPut(r) ==
    \/ runners[r].pc \in {"reported", "cursor closed", "done"}
    \/ runners[r].pc = "aborted" /\ runners[r].line \in {69, 70}

\* The end of the process that runs run() (Process(target=qs.run)), while nothing
\* reads the Queue: the caller joins every process before its first get().  A
\* process that has put a report ends only when the Queue's feeder thread has
\* written the whole report into the pipe, so a report larger than the pipe keeps
\* its process alive until somebody reads.  A process that has put nothing ends at
\* once.
Exit(r) ==
    /\ ~runners[r].exited
    /\ runners[r].pc \in {"done", "aborted"}
    /\ HasPut(r) => ReportSize(r) <= PipeCapacity
    /\ runners' = [runners EXCEPT ![r] = [@ EXCEPT !.exited = TRUE]]
    /\ UNCHANGED <<executed, channel_log, timer_queues, ovars, rvars>>

RunnerStart == \E r \in 1..Len(runners) : Start(r)

RunnerExecute == \E r \in 1..Len(runners) : Execute(r)

RunnerPut == \E r \in 1..Len(runners) : Put(r)

RunnerCloseCursor == \E r \in 1..Len(runners) : CloseCursor(r)

RunnerCloseConnection == \E r \in 1..Len(runners) : CloseConnection(r)

RunnerExit == \E r \in 1..Len(runners) : Exit(r)

\* One to two QuerySet objects, each constructed with its own Queue, and at most
\* MaxRunnerQueries queries between them.
InitRunner ==
    /\ bpc = "none"
    /\ templates = <<>>
    /\ n_templates = 0
    /\ nrep = 0
    /\ routes = <<>>
    /\ config = <<>>
    /\ create_indexes = FALSE
    /\ times = <<>>
    /\ order = <<>>
    /\ replica_workloads = <<>>
    /\ replica_templates = <<>>
    /\ tic = "unset"
    /\ toc = "unset"
    /\ last_op = "none"
    /\ err = "none"
    /\ nruns = 0
    /\ db = [i \in 1..2 |-> {}]
    /\ created = <<>>
    /\ dropped = <<>>
    /\ query_text = NoText
    /\ rewritten = NotRewritten
    /\ rewritten_again = NotRewritten
    /\ \E n \in RunnerCounts :
         \E inp \in [1..n -> RunnerInputs(MaxRunnerQueries)] :
            /\ SumSeq([r \in 1..n |-> Len(inp[r][1])]) <= MaxRunnerQueries
            /\ runners = [r \in 1..n |->
                            NewQuerySet(r - 1, inp[r][1], inp[r][2], r, inp[r][3])]
            /\ executed = [r \in 1..n |-> <<>>]
            /\ timer_queues = [r \in 1..n |-> <<>>]
    /\ channel_log = <<>>

NextRunner ==
    \/ RunnerStart
    \/ RunnerExecute
    \/ RunnerPut
    \/ RunnerCloseCursor
    \/ RunnerCloseConnection
    \/ RunnerExit

SpecRunner == InitRunner /\ [][NextRunner]_vars

\* ======================================================================
\* Properties of the orchestrator (specification Spec)
\* ======================================================================

\* The last call that ended on the orchestrator is a run().
RunEnded == bpc = "idle" /\ last_op = "run"

\* The data-model invariants of a corpus and its routing table: dense zero-based
\* template ids, and a target replica for every template id of the corpus.
RoutingTotal ==
    \A t \in Range(templates) : t < Len(routes) /\ routes[t + 1] < nrep

WellFormed == Range(templates) = 0..(n_templates - 1) /\ RoutingTotal

\* Every replica has at least one query instance routed to it.
EveryReplicaUsed == nrep >= 1 /\ \A r \in 0..(nrep - 1) : \E t \in Range(templates) : routes[t + 1] = r

\* The report read from replica r's queue (r counted from 1), if there is one.
ReportOf(r) ==
    IF r <= Len(timer_queues) /\ timer_queues[r] # <<>>
    THEN Head(timer_queues[r]) ELSE [total |-> 0, times |-> <<>>]

\* The sum of the times reported for the instances of template t: the i-th time of
\* replica r's report belongs to the i-th instance of replica r's sub-workload.
RECURSIVE ReportedFrom(_, _, _)
ReportedFrom(t, r, i) ==
    IF r > Len(replica_templates) THEN 0
    ELSE IF i > Len(ReportOf(r).times) THEN ReportedFrom(t, r + 1, 1)
    ELSE (IF replica_templates[r][i] = t THEN ReportOf(r).times[i] ELSE 0)
         + ReportedFrom(t, r, i + 1)

ReportedSum(t) == ReportedFrom(t, 1, 1)

\* C1: when run() has ended on a well-formed, non-empty corpus and routing table, it
\* has returned, and per_template_times[t] is the sum of the reported times of exactly
\* the instances of template t.  (Violated: run() ends with an exception.)
C1_AggregationCorrect ==
    (RunEnded /\ WellFormed /\ templates # <<>>) =>
        /\ err = "none"
        /\ \A t \in 0..(n_templates - 1) : times[t + 1] = ReportedSum(t)

\* The partition of lines 57-66 has run to its end.
PartitionDone == bpc = "querysets"

Count(s, x) == Cardinality({i \in 1..Len(s) : s[i] = x})

\* C2: the sub-workloads built from the shuffled order are pairwise disjoint, every
\* query instance occurs exactly once in their union, and each instance is in the
\* sub-workload of the replica its template is routed to (with its template beside
\* it in replica_templates).
C2_PartitionDisjointComplete ==
    PartitionDone =>
        /\ Len(replica_workloads) = nrep
        /\ \A r1, r2 \in 1..nrep :
              r1 # r2 => Range(replica_workloads[r1]) \cap Range(replica_workloads[r2]) = {}
        /\ \A r \in 1..nrep : Range(replica_workloads[r]) \subseteq 0..(Len(templates) - 1)
        /\ \A q \in 0..(Len(templates) - 1) :
              /\ SumSeq([r \in 1..nrep |-> Count(replica_workloads[r], q)]) = 1
              /\ templates[q + 1] < Len(routes)
              /\ routes[templates[q + 1] + 1] < nrep
              /\ Count(replica_workloads[routes[templates[q + 1] + 1] + 1], q) = 1
        /\ \A r \in 1..nrep :
              replica_templates[r] =
                  [i \in 1..Len(replica_workloads[r]) |-> templates[replica_workloads[r][i] + 1]]

\* C2 witness: a partition over two replicas that both receive instances, from an
\* order that the shuffle has changed.
C2_Witness ==
    /\ PartitionDone
    /\ nrep = 2
    /\ replica_workloads[1] # <<>>
    /\ Len(replica_workloads[2]) >= 2
    /\ order # [i \in 1..Len(templates) |-> i - 1]

\* C4: when run() has ended on a well-formed corpus whose routing table gives work
\* to each of two or more replicas, the start
\* time was taken (before any runner was started), the end time was taken (after
\* every runner terminated), and the span covers each runner's own total.
\* (Violated: run() ends at line 76 at the latest, with no start time taken.)
C4_WallTimeTaken ==
    (RunEnded /\ WellFormed /\ EveryReplicaUsed /\ nrep >= 2) =>
        /\ tic # "unset"
        /\ toc # "unset"
        /\ \A r \in 1..nrep : ReportOf(r).total <= toc - tic

\* C5: the timing vector is all zeros whenever a run() is past its partition, and
\* a second or later run() on the same orchestrator returns a vector that holds the
\* timings of that run only.  (Violated: no run() returns.)
C5_TimesPerRun ==
    /\ (bpc \in {"querysets", "start"}) => \A t \in 1..Len(times) : times[t] = 0
    /\ (RunEnded /\ WellFormed /\ templates # <<>> /\ nruns >= 2) =>
          /\ err = "none"
          /\ \A t \in 0..(n_templates - 1) : times[t + 1] = ReportedSum(t)

\* C6: an orchestrator over one or more replicas is constructed only if the routing
\* table defines a target replica for every template id of its corpus.  (Violated: __init__ checks nothing.)
C6_RoutingGapFailsFast ==
    (bpc = "idle" /\ last_op = "init" /\ nrep >= 1) => RoutingTotal

\* ---- index naming
\* The plan entry with the global (1-based) number j belongs to replica OwnerOf(cfg, j).
OwnerOf(cfg, j) ==
    CHOOSE r \in 0..(Len(cfg) - 1) :
        SumSeq(SubSeq(cfg, 1, r)) < j /\ j <= SumSeq(SubSeq(cfg, 1, r + 1))

\* idx_1 .. idx_k in plan iteration order, each on the replica that owns the entry.
PlanStmts(cfg) == [j \in 1..PlanSize(cfg) |-> <<OwnerOf(cfg, j), j>>]

\* The indexes that exist once the statements stmts have been executed.
DbOf(stmts) == [i \in 1..2 |-> {s[2] : s \in {x \in Range(stmts) : x[1] = i - 1}}]

\* C7: index creation issues exactly the statements CREATE INDEX idx_1 .. idx_k in
\* plan order, one counter across the plan, each on the owning replica; and a
\* destroy_indexes call made while those indexes exist issues DROP INDEX for exactly
\* the same names on the same replicas, and completes.
C7_IndexNaming ==
    /\ []((last_op = "init" /\ create_indexes) =>
            (err = "none" /\ created = PlanStmts(config) /\ db = DbOf(created)))
    /\ [][(bpc = "idle" /\ last_op' = "destroy" /\ nruns' = nruns
           /\ create_indexes /\ db = DbOf(created))
          => (err' = "none" /\ dropped' = created /\ db' = DbOf(<<>>))]_vars

\* C7 witness: a plan of 3 entries across 2 replicas, created and then dropped.
C7_Witness ==
    /\ last_op = "destroy"
    /\ err = "none"
    /\ create_indexes
    /\ Len(created) = 3
    /\ dropped = created
    /\ config[1] > 0
    /\ config[2] > 0

\* C8: every destroy_indexes call completes without an error, also when index
\* creation was skipped and when it is called a second time.  (Violated: DROP INDEX
\* of an index that does not exist is rejected by the database.)
C8_DestroyIdempotentSafe ==
    last_op = "destroy" => err = "none"

\* ======================================================================
\* Properties of the rewriter (specification SpecRewrite)
\* ======================================================================

Called == rewritten # NotRewritten

\* The ends of the pattern's matches in qtext: the position after each matched "(".
MatchEnds(qtext) == FindIter(LowerText(qtext), 0)

\* The position immediately after the ")" that returns the depth count of the match
\* ending at e to 0; -1 when there is none.
CloseOf(qtext, e) == ScanClose(LowerText(qtext), e, 1)

\* Every matched derived table of qtext is closed.
AllClosed(qtext) == \A i \in 1..Len(MatchEnds(qtext)) : CloseOf(qtext, MatchEnds(qtext)[i]) # -1

\* The needs-alias set of the design: the token after the derived table is empty,
\* begins with ")" or ",", or is one of limit, group, order, where.
SpecNeedsAlias(w) == w = <<>> \/ w[1] \in {")", ","} \/ w \in Keywords

\* The end positions of the unaliased derived tables of qtext.
SpecPositions(qtext) ==
    { CloseOf(qtext, MatchEnds(qtext)[i]) :
        i \in { j \in 1..Len(MatchEnds(qtext)) :
                  SpecNeedsAlias(NextWord(qtext, CloseOf(qtext, MatchEnds(qtext)[j]))) } }

\* out is orig with Alias inserted once at each position of P and nothing else
\* changed: every character of orig is kept, in order, moved right by one alias for
\* each position of P at or before it.
IsInsertion(orig, out, P) ==
    /\ Len(out) = Len(orig) + Len(Alias) * Cardinality(P)
    /\ \A i \in 0..(Len(orig) - 1) :
          out[i + Len(Alias) * Cardinality({p \in P : p <= i}) + 1] = orig[i + 1]
    /\ \A p \in P :
          LET at == p + Len(Alias) * Cardinality({x \in P : x < p})
          IN SubSeq(out, at + 1, at + Len(Alias)) = Alias

\* C9: for a text with two or more derived tables (side by side or nested), all of
\* them closed, the rewriter returns the text with the alias inserted exactly once
\* at the end of each unaliased derived table, and no other character changed.
\* (Violated: no text is returned when a derived table ends the text, see C10.)
C9_AliasEachDerivedTable ==
    (Called /\ Len(MatchEnds(query_text)) >= 2 /\ AllClosed(query_text)) =>
        /\ rewritten.ok
        /\ IsInsertion(query_text, rewritten.text, SpecPositions(query_text))

\* What does hold: whenever the rewriter returns, it returns the text with the
\* alias inserted exactly once at the end of each unaliased derived table.
Rewriter_ReturnsInsertion ==
    (Called /\ rewritten.ok) =>
        IsInsertion(query_text, rewritten.text, SpecPositions(query_text))

\* C10: for a text whose derived tables are all closed, the positions recorded are
\* exactly the ends followed by an empty token, a token beginning with ")" or ",",
\* or limit, group, order, where; and the rewriter returns a text that is longer by
\* one alias for each of them.  (Violated: an empty next token raises IndexError.)
C10_NeedsAliasSet ==
    (Called /\ AllClosed(query_text)) =>
        /\ rewritten.ok
        /\ Range(rewritten.positions) = SpecPositions(query_text)
        /\ Len(rewritten.text)
             = Len(query_text) + Len(Alias) * Cardinality(SpecPositions(query_text))

\* What does hold: the positions recorded by a call that returns are exactly those of
\* the needs-alias set, none of which has an empty next token.
Rewriter_RecordsNeedsAlias ==
    (Called /\ rewritten.ok) =>
        /\ Range(rewritten.positions) = SpecPositions(query_text)
        /\ \A i \in 1..Len(MatchEnds(query_text)) :
              NextWord(query_text, CloseOf(query_text, MatchEnds(query_text)[i])) # <<>>

CalledAgain == rewritten_again # NotRewritten

\* C11: the rewriter is idempotent on every input on which it returns: the second
\* call, applied to the text the first returned, returns too, records no position,
\* and returns that text unchanged (no second alias is inserted).
C11_Idempotent ==
    CalledAgain =>
        /\ rewritten_again.ok
        /\ rewritten_again.positions = <<>>
        /\ rewritten_again.text = rewritten.text

\* A first call that inserted an alias, followed by a second call on its result.
C11_Witness ==
    /\ CalledAgain
    /\ rewritten.positions # <<>>
    /\ rewritten.text # query_text
    /\ rewritten_again.text = rewritten.text

\* The depth of the parentheses of qtext between the match end e and position p,
\* counted from 1 for the matched "(": one more for each "(", one less for each ")".
Depth(qtext, e, p) ==
    1 + Cardinality({k \in (e + 1)..p : qtext[k] = "("})
      - Cardinality({k \in (e + 1)..p : qtext[k] = ")"})

\* The derived table whose matched "(" ends at e is never closed in qtext.
NeverClosed(qtext, e) == \A p \in e..Len(qtext) : Depth(qtext, e, p) > 0

Unbalanced(qtext) ==
    \E i \in 1..Len(MatchEnds(qtext)) : NeverClosed(qtext, MatchEnds(qtext)[i])

\* C12: on an input in which a matched derived-table "(" is never closed, the call
\* ends with the out-of-range read error (IndexError) and returns no text.
C12_UnbalancedFails ==
    (Called /\ Unbalanced(query_text)) =>
        /\ ~rewritten.ok
        /\ rewritten.err = "IndexError"
        /\ rewritten.text = <<>>

\* An unbalanced input whose scan ran off the end after an earlier derived table
\* had been closed and recorded.
C12_Witness ==
    /\ Called
    /\ Unbalanced(query_text)
    /\ rewritten.positions # <<>>
    /\ rewritten.err = "IndexError"

\* ======================================================================
\* Properties of the runners (specifications SpecRunner and Spec)
\* ======================================================================

PutsBy(r) == Cardinality({k \in 1..Len(channel_log) :
                             channel_log[k].op = "put" /\ channel_log[k].by = r})

Puts(q) == Cardinality({k \in 1..Len(channel_log) :
                           channel_log[k].op = "put" /\ channel_log[k].queue = q})

Gets(q) == Cardinality({k \in 1..Len(channel_log) :
                           channel_log[k].op = "get" /\ channel_log[k].queue = q})

\* Runner r ended with an exception of the loop: of a cursor.execute call, or of
\* lines 39 and 49.
AbortedInLoop(r) == runners[r].pc = "aborted" /\ runners[r].line \notin {69, 70}

\* A runner that has completed has put exactly one report, a runner that aborted on
\* an execution error none, no runner more than one, and every put of a runner went
\* to the Queue it was constructed with.
ChannelRunnerSide ==
    \A r \in 1..Len(runners) :
        /\ runners[r].pc = "done" => PutsBy(r) = 1
        /\ AbortedInLoop(r) => PutsBy(r) = 0
        /\ PutsBy(r) <= 1
        /\ \A k \in 1..Len(channel_log) :
              (channel_log[k].op = "put" /\ channel_log[k].by = r)
                  => channel_log[k].queue = runners[r].queue

\* When run() has ended on a well-formed input, each replica's Queue has been read
\* exactly once.
ChannelOrchestratorSide ==
    (RunEnded /\ WellFormed) => \A q \in 1..nrep : Gets(q) = 1

\* C14: each per-replica channel is one-shot within a run: a runner that completes
\* writes exactly one report to its own channel, a runner that aborts writes none,
\* no runner writes to another replica's channel, and the orchestrator reads each
\* channel exactly once.
C14_ChannelOneShot == ChannelRunnerSide /\ ChannelOrchestratorSide

\* What does hold of QuerySet.run(): the runner's side of the channel, a report is
\* put exactly when the runner is past line 61, and no Queue ever holds more than
\* the one report of its runner.
Runner_ChannelOneShot ==
    /\ ChannelRunnerSide
    /\ \A r \in 1..Len(runners) : PutsBy(r) = (IF HasPut(r) THEN 1 ELSE 0)
    /\ \A q \in 1..Len(timer_queues) :
          /\ Len(timer_queues[q]) = Puts(q)
          /\ Puts(q) <= 1

\* The positions, in the runner's sub-workload, of the queries of the statements
\* runner r has executed, in the order of execution.
ExecutedPositions(r) == [j \in 1..Len(executed[r]) |-> executed[r][j].q]

\* The query instances routed to replica k, in the order of the shuffled permutation.
RoutedInOrder(k) == SelectSeq(order, LAMBDA q : routes[templates[q + 1] + 1] = k)

\* C15: on every replica the queries are executed one at a time in exactly the
\* relative order in which the instances routed to it appear in the shuffled
\* permutation, and the reported times list has one entry per instance in that order.
C15_ExecutionOrder ==
    (RunEnded /\ WellFormed /\ templates # <<>>) =>
        \A k \in 0..(nrep - 1) :
            /\ replica_workloads[k + 1] = RoutedInOrder(k)
            /\ \E r \in 1..Len(runners) :
                  /\ runners[r].num = k
                  /\ ExecutedPositions(r) = [j \in 1..Len(replica_workloads[k + 1]) |-> j]
                  /\ timer_queues[runners[r].queue] # <<>>
                  /\ Len(timer_queues[runners[r].queue][1].times)
                        = Len(replica_workloads[k + 1])

\* What does hold of the partition loop: the sub-workloads keep the shuffled order.
Partition_Stable ==
    (PartitionDone /\ RoutingTotal) =>
        \A k \in 0..(nrep - 1) : replica_workloads[k + 1] = RoutedInOrder(k)

\* What does hold of QuerySet.run(): the statements are executed in the order of the
\* sub-workload, a query's statements together, and times has one entry per query
\* completed, which a completed runner reports as they are.
Runner_InOrder ==
    \A r \in 1..Len(runners) :
        /\ \A j \in 1..(Len(executed[r]) - 1) : executed[r][j].q <= executed[r][j + 1].q
        /\ \A j \in 1..Len(executed[r]) :
              \/ executed[r][j].q <= runners[r].i
              \/ /\ executed[r][j].q = runners[r].i + 1
                 /\ (runners[r].k > 0 \/ runners[r].pc = "aborted")
        /\ Len(runners[r].times) = runners[r].i
        /\ HasPut(r) =>
              /\ runners[r].i = Len(runners[r].queries)
              /\ timer_queues[runners[r].queue][1].times = runners[r].times

\* The executions of query instance q: the runner and the place in its log.
ExecutionsOf(q) ==
    { e \in UNION { {<<r, j>> : j \in 1..Len(executed[r])} : r \in 1..Len(runners) } :
        LET k == runners[e[1]].num
            pos == executed[e[1]][e[2]].q
        IN /\ k < Len(replica_workloads)
           /\ pos <= Len(replica_workloads[k + 1])
           /\ replica_workloads[k + 1][pos] = q }

NoCallFailed ==
    \A r \in 1..Len(runners) : \A j \in 1..Len(executed[r]) : executed[r][j].ok

PlanCaptureOff == \A r \in 1..Len(runners) : ~runners[r].explain_plans

\* C16: in a run with plan capture off in which no database operation fails, every
\* query instance of the corpus is executed exactly once, on exactly the replica its
\* template is routed to.
C16_ExactlyOnce ==
    (RunEnded /\ WellFormed /\ templates # <<>> /\ PlanCaptureOff /\ NoCallFailed) =>
        \A q \in 0..(Len(templates) - 1) :
            /\ Cardinality(ExecutionsOf(q)) = 1
            /\ \A e \in ExecutionsOf(q) : runners[e[1]].num = routes[templates[q + 1] + 1]

\* What does hold of QuerySet.run() with plan capture off: the queries of the
\* sub-workload are executed once each, in order, as they are, and a call that
\* failed is the last call of its runner.
Runner_ExactlyOnce ==
    \A r \in 1..Len(runners) :
        /\ ~runners[r].explain_plans =>
              /\ ExecutedPositions(r) = [j \in 1..Len(executed[r]) |-> j]
              /\ \A j \in 1..Len(executed[r]) :
                    /\ executed[r][j].stmt = runners[r].queries[j]
                    /\ ~executed[r][j].explain
              /\ runners[r].pc = "done" => Len(executed[r]) = Len(runners[r].queries)
        /\ \A j \in 1..Len(executed[r]) :
              ~executed[r][j].ok => (j = Len(executed[r]) /\ runners[r].pc = "aborted")

\* C17: every connection and cursor a runner opened is closed exactly once by the
\* end of its run(), also when run() ends with an error; none is closed twice.
C17_ClosedExactlyOnce ==
    \A r \in 1..Len(runners) :
        /\ runners[r].cursor_closes <= 1
        /\ runners[r].connection_closes <= 1
        /\ runners[r].pc \in {"done", "aborted"} =>
              /\ runners[r].cursor_closes = 1
              /\ runners[r].connection_closes = 1

\* What does hold: a runner that completed has closed both once, after its put and
\* the cursor before the connection; neither is ever closed twice.
Runner_ClosedWhenDone ==
    \A r \in 1..Len(runners) :
        /\ runners[r].pc = "done" =>
              (runners[r].cursor_closes = 1 /\ runners[r].connection_closes = 1)
        /\ runners[r].connection_closes <= runners[r].cursor_closes
        /\ runners[r].cursor_closes <= 1
        /\ runners[r].cursor_closes = 1 => HasPut(r)

\* A report that can be read while its runner has not closed its cursor yet.
Runner_ReportBeforeClose ==
    \E r \in 1..Len(runners) :
        /\ timer_queues[runners[r].queue] # <<>>
        /\ runners[r].pc = "reported"
        /\ runners[r].cursor_closes = 0

\* A runner between two calls of one query while another runner has completed.
Runner_BetweenCalls ==
    \E r \in 1..Len(runners), o \in 1..Len(runners) :
        /\ runners[r].pc = "running"
        /\ runners[r].k = 1
        /\ Len(executed[r]) = 1
        /\ runners[o].pc = "done"

\* The executions runner r made for the query at position j of its sub-workload.
ExecutionsAt(r, j) == SelectSeq(executed[r], LAMBDA e : e.q = j)

IsViewStatement(statement) ==
    Contains(statement, "create view") \/ Contains(statement, "drop view")

\* The sub-statements of a query that plan-capture mode executes: the create view
\* and drop view statements, and the other statements that contain select.
Executable(query) ==
    SelectSeq(Split(query, <<>>),
              LAMBDA st : IsViewStatement(st) \/ Contains(st, "select"))

\* The plans of the statements of a list, one after the other.
RECURSIVE PlanTexts(_)
PlanTexts(statements) ==
    IF statements = <<>> THEN <<>>
    ELSE PlanText(Head(statements)) \o PlanTexts(Tail(statements))

\* Of the instances a runner in plan-capture mode has completed, and of its report:
\* one time and one plan entry each, the view statements executed directly and the
\* other statements with select only wrapped, the time spanning all the calls.
PlanCaptureEntries(r) ==
    /\ Len(runners[r].times) = runners[r].i
    /\ Len(runners[r].plans) = runners[r].i
    /\ \A j \in 1..runners[r].i :
          LET ex == ExecutionsAt(r, j)
          IN /\ [k \in 1..Len(ex) |-> ex[k].stmt] = Executable(runners[r].queries[j])
             /\ \A k \in 1..Len(ex) :
                   /\ ex[k].ok
                   /\ ex[k].explain <=> ~IsViewStatement(ex[k].stmt)
             /\ runners[r].times[j] = SumSeq([k \in 1..Len(ex) |-> ex[k].dur])
    /\ HasPut(r) =>
          /\ runners[r].i = Len(runners[r].queries)
          /\ Len(timer_queues[runners[r].queue]) = 1
          /\ timer_queues[runners[r].queue][1].times = runners[r].times
          /\ timer_queues[runners[r].queue][1].plans = runners[r].plans

\* The plan entry of each completed instance holds the plans of its wrapped
\* statements, in order.
PlansAccumulated(r) ==
    \A j \in 1..Len(runners[r].plans) :
        runners[r].plans[j] =
            PlanTexts(SelectSeq(Executable(runners[r].queries[j]),
                                LAMBDA st : ~IsViewStatement(st)))

\* What the claim says of a runner in plan-capture mode.
PlanCaptureOf(r) == PlanCaptureEntries(r) /\ PlansAccumulated(r)

\* C18: in plan-capture mode the runner records exactly one time and exactly one
\* plan entry per query instance, in sub-workload order, whatever the number of
\* ";"-separated sub-statements: the create view and drop view sub-statements are
\* executed directly, the (other) sub-statements containing select are executed only
\* wrapped in EXPLAIN with their plan fragments accumulated in order, and the
\* recorded time spans all the sub-statements of the instance.  For a runner that
\* has a template for each query and none of whose database calls raised: run()
\* does not end with an exception of its loop, and the entries are as said.
C18_PlanCapture ==
    \A r \in 1..Len(runners) :
        ( /\ runners[r].explain_plans
          /\ Len(runners[r].templates) >= Len(runners[r].queries)
          /\ \A j \in 1..Len(executed[r]) : executed[r][j].ok )
        => (~AbortedInLoop(r) /\ PlanCaptureOf(r))

\* What does hold in plan-capture mode: the entries of the instances completed, and
\* the report of a runner that got to its put, are as the claim says, but for what
\* the plan entries hold: that is what line 49 made of the rows fetched.
Runner_PlanCapture ==
    \A r \in 1..Len(runners) : runners[r].explain_plans => PlanCaptureEntries(r)

\* A runner in plan-capture mode that completed with one character for the plan of
\* a statement: the row held the plan as text.
Runner_PlanFirstCharacter ==
    \E r \in 1..Len(runners) :
        /\ runners[r].explain_plans
        /\ runners[r].pc = "done"
        /\ \E j \in 1..Len(runners[r].plans) : runners[r].plans[j] = <<"[">>

\* A runner in plan-capture mode that completed a sub-workload holding a query of a
\* create view, a select and a drop view statement, whose calls did not all take
\* the same time.
Runner_PlanCaptureDone ==
    \E r \in 1..Len(runners) :
        /\ runners[r].explain_plans
        /\ runners[r].pc = "done"
        /\ \E j \in 1..Len(runners[r].queries) :
              /\ Len(Executable(runners[r].queries[j])) = 3
              /\ runners[r].plans[j] = PlanText(<<"select">>)
              /\ runners[r].times[j] = 4
        /\ timer_queues[runners[r].queue] # <<>>

EveryRunnerCompleted == \A r \in 1..Len(runners) : runners[r].pc = "done"

AllExited == \A r \in 1..Len(runners) : runners[r].exited

\* C19: if every runner executes its whole sub-workload without error, the join of
\* all runner processes, made before any Queue is read, never blocks forever,
\* whatever the size of the reports: as long as a completed runner's process has
\* not ended, some runner's process can end without a read.
C19_JoinNeverBlocks ==
    EveryRunnerCompleted => (AllExited \/ ENABLED RunnerExit)

\* The same claim for run() as it is written: it returns its result when no runner
\* has failed.  It does not; see C1.
Run_ReturnsResult ==
    (RunEnded /\ WellFormed /\ templates # <<>> /\ NoCallFailed) => err = "none"

====
